---- MODULE Spec2Model ----
(***************************************************************************)
(* Model of the Hugim allocation engine: allocator.py (Round Allocator,   *)
(* Scorer, run_allocation), data_helpers.py (Minimum Enforcer, both       *)
(* strategies, and the unassigned-reason diagnosis) and the allocation    *)
(* cycle of streamlit_app.main that drives them; and the camp summary of  *)
(* googlesheets.get_all_camps_analytics.                                  *)
(*                                                                         *)
(* Participants are addressed by their list index 1..NumCampers; the      *)
(* CamperID of a participant is unique and is identified with the index.  *)
(* Periods are addressed by their position in PERIODS.  A dict of the     *)
(* catalog keeps insertion order, which is the row order HugOrder.        *)
(***************************************************************************)
EXTENDS Integers, Sequences, FiniteSets, TLC

\* ------------------------------------------------------------------ bounds
\* largest capacity, minimum and prior score of the input files, longest
\* preference list of a period
MaxCapacity == 2
MaxMinimum == 2
MaxScore == 1
MaxPrefs == 2
\* allocation cycles followed in SpecCycles
MaxRuns == 2
\* cap on the executions of the while body of the cancel loop
MaxPasses == 6
\* camps of the master spreadsheet
MaxCamps == 2

\* -------------------------------------------------------- program constants
\* allocator.py: PREFERENCES_PER_PERIOD = 5 (load_preferences resets it to the
\* number of preference columns of a period, which bounds every list)
PREFERENCES_PER_PERIOD == 5

\* the population of a run: two participants, two periods, two activities
Campers == {1, 2}
Periods == {1, 2}
NumCampers == Cardinality(Campers)
NumPeriods == Cardinality(Periods)
HugOrder == <<"A", "B">>
Hugs == {HugOrder[i] : i \in 1..Len(HugOrder)}
None == "None"

\* AssignmentMethod / UnassignedReason strings of the source
Forced_minimum == "Forced_minimum"
Random == "Random"
ReasonNoActivities == "No activities offered in this period."
ReasonAllFull == "All activities full in this period."
ReasonNoRepeat == "No activity available without repeating across periods."
ReasonNoPrefs == "No preferences listed for this period."
ReasonPrefsUnavailable == "Preferences not available (full, not offered, or duplicate)."
ReasonUnknown == "Unknown reason (please report)."
Reasons == {ReasonNoActivities, ReasonAllFull, ReasonNoRepeat, ReasonNoPrefs,
            ReasonPrefsUnavailable, ReasonUnknown}

\* f'Pref_{n}'
Pref(n) == CASE n = 1 -> "Pref_1" [] n = 2 -> "Pref_2" [] n = 3 -> "Pref_3"
             [] n = 4 -> "Pref_4" [] n = 5 -> "Pref_5" [] OTHER -> "Pref_n"
PrefMethods == {Pref(n) : n \in 1..5}

VARIABLES
  roster,           \* the participants of the campers list load_preferences built
  preferences,      \* camper -> period -> ordered list of hugs (input file)
  catalog,          \* period -> hug -> instance as load_hugim builds it (input file)
  base_scores,      \* camper -> score_history as load_preferences builds it
  strategy,         \* the radio choice of streamlit_app.main
  assignments,      \* camper -> period -> [hug, how]
  score_history,    \* camper -> sequence of scores
  hugim,            \* period -> hug -> [present, capacity, min, enrolled]
  rng,              \* state of the module-level random generator
  pc,               \* position of the allocation cycle
  cur,              \* index into PERIODS of the next assign_period call
  canceled_hugs_by_period,
  changes,          \* the loop flag of enforce_minimums_cancel_and_reallocate
  passes,           \* number of executions of the while body in this call
  printed,          \* warnings of fill_minimums written with print
  st_warnings,      \* warnings passed to st.warning
  warning_msg,      \* the local of the running fill_minimums call
  rank_log,         \* history: admissions of the last assign_period, per rank
  under_seen,       \* history: instances found below minimum by the cancel loop
  displaced,        \* history: <<camper, period>> slots emptied by a cancellation
  phases,           \* history: phases executed in this cycle, in order
  runs,             \* number of cycles started in this process family
  fresh,            \* TRUE iff the current cycle started right after seeding
  prev_table,       \* Assignment Table of the previous cycle, if runs > 1
  camp_names,       \* the list get_all_camp_names returned
  reads,            \* camp name -> what read_config does for that camp
  analytics_data,   \* the rows get_all_camps_analytics collected so far
  camp_idx,         \* idx of the for loop of get_all_camps_analytics
  analytics_pc      \* position of get_all_camps_analytics

vars == <<roster, preferences, catalog, base_scores, strategy, assignments,
          score_history, hugim, rng, pc, cur, canceled_hugs_by_period,
          changes, passes, printed, st_warnings, warning_msg, rank_log,
          under_seen, displaced, phases, runs, fresh, prev_table,
          camp_names, reads, analytics_data, camp_idx, analytics_pc>>

analytics_vars == <<camp_names, reads, analytics_data, camp_idx, analytics_pc>>

\* -------------------------------------------------------------- sequences
RECURSIVE SumSeq(_)
SumSeq(s) == IF s = <<>> THEN 0 ELSE Head(s) + SumSeq(Tail(s))

RECURSIVE FilterSeq(_, _)
\* [x for x in s if keep[x]] with keep a set
FilterSeq(s, keep) ==
  IF s = <<>> THEN <<>>
  ELSE IF Head(s) \in keep THEN <<Head(s)>> \o FilterSeq(Tail(s), keep)
       ELSE FilterSeq(Tail(s), keep)

Range(s) == {s[i] : i \in 1..Len(s)}

\* candidates[:spots] with Python's slice semantics (a negative bound counts
\* from the end)
Slice(s, n) ==
  IF n >= 0 THEN SubSeq(s, 1, IF n < Len(s) THEN n ELSE Len(s))
  ELSE SubSeq(s, 1, IF Len(s) + n > 0 THEN Len(s) + n ELSE 0)

\* ----------------------------------------------------- random generator
\* random.seed(RANDOM_SEED) fixes one stream of draws.  The stream is
\* unknown to the model: rng.stream is the part of it revealed so far and
\* rng.pos the number of draws consumed since seeding.  A draw below the
\* revealed length replays the stream; a draw beyond it reveals one value.
SeededRng == [tracked |-> TRUE, stream |-> <<>>, pos |-> 0]

\* the generator with its state abstracted away: every draw is free
AnyRng == [tracked |-> FALSE, stream |-> <<>>, pos |-> 0]

randbelow(n, g) ==
  IF ~g.tracked THEN {[v |-> v, rng |-> g] : v \in 0..(n - 1)}
  ELSE IF g.pos < Len(g.stream)
  THEN {[v |-> g.stream[g.pos + 1] % n, rng |-> [g EXCEPT !.pos = @ + 1]]}
  ELSE {[v |-> v, rng |-> [g EXCEPT !.stream = Append(g.stream, v), !.pos = g.pos + 1]]
          : v \in 0..(n - 1)}

\* x[i], x[j] = x[j], x[i] on 0-based indexes
Swap(x, i, j) == [x EXCEPT ![i + 1] = x[j + 1], ![j + 1] = x[i + 1]]

RECURSIVE ShuffleLoop(_, _, _)
\* for i in reversed(range(1, len(x))): j = randbelow(i + 1); swap
ShuffleLoop(x, i, g) ==
  IF i < 1 THEN {[x |-> x, rng |-> g]}
  ELSE UNION {ShuffleLoop(Swap(x, i, d.v), i - 1, d.rng) : d \in randbelow(i + 1, g)}

shuffle(x, g) == ShuffleLoop(x, Len(x) - 1, g)

\* a key that a period's dict does not hold
Absent == [present |-> FALSE, capacity |-> 0, min |-> 0, enrolled |-> {}]

\* ------------------------------------------- unassigned-reason diagnosis
\* the hugs of a period's dict, in insertion order
HugList(hp) == FilterSeq(HugOrder, {h \in Hugs : hp[h].present})

HasRoom(hp, h) == Cardinality(hp[h].enrolled) < hp[h].capacity

\* mutant: the period test inverted ("p == period")
already_has_hug_SamePeriod(a, period, hug) ==
  \E p \in Periods : a[p].hug # None /\ p = period /\ a[p].hug = hug

\* already_has_hug of assign_period and of get_unassignment_reason: a is the
\* camper's assignments
already_has_hug(a, period, hug) ==
  \E p \in Periods : a[p].hug # None /\ p # period /\ a[p].hug = hug

\* mutant: the rule for an empty preference list is missing and the rule
\* after it applies to non-empty lists only
get_unassignment_reason_NoRuleD(a, prefs, period, hp) ==
  LET available == {h \in Hugs : hp[h].present /\ HasRoom(hp, h)}
      assignable == {h \in available : ~already_has_hug(a, period, h)}
      preferred_and_available == {h \in Range(prefs) : h \in assignable}
  IN  IF HugList(hp) = <<>> THEN ReasonNoActivities
      ELSE IF available = {} THEN ReasonAllFull
      ELSE IF assignable = {} THEN ReasonNoRepeat
      ELSE IF prefs # <<>> /\ preferred_and_available = {} THEN ReasonPrefsUnavailable
      ELSE ReasonUnknown

\* mutant: the empty preference list is tested before the capacity and the
\* repetition rules
get_unassignment_reason_PrefsFirst(a, prefs, period, hp) ==
  LET available == {h \in Hugs : hp[h].present /\ HasRoom(hp, h)}
      assignable == {h \in available : ~already_has_hug(a, period, h)}
      preferred_and_available == {h \in Range(prefs) : h \in assignable}
  IN  IF HugList(hp) = <<>> THEN ReasonNoActivities
      ELSE IF prefs = <<>> THEN ReasonNoPrefs
      ELSE IF available = {} THEN ReasonAllFull
      ELSE IF assignable = {} THEN ReasonNoRepeat
      ELSE IF preferred_and_available = {} THEN ReasonPrefsUnavailable
      ELSE ReasonUnknown

\* get_unassignment_reason(campers, camper_idx, period, hugim_for_period)
get_unassignment_reason(a, prefs, period, hp) ==
  LET available == {h \in Hugs : hp[h].present /\ HasRoom(hp, h)}
      assignable == {h \in available : ~already_has_hug(a, period, h)}
      preferred_and_available == {h \in Range(prefs) : h \in assignable}
  IN  IF HugList(hp) = <<>> THEN ReasonNoActivities
      ELSE IF available = {} THEN ReasonAllFull
      ELSE IF assignable = {} THEN ReasonNoRepeat
      ELSE IF prefs = <<>> THEN ReasonNoPrefs
      ELSE IF preferred_and_available = {} THEN ReasonPrefsUnavailable
      ELSE ReasonUnknown

\* ------------------------------------------------------- Round Allocator
get_total_score(sh) == SumSeq(sh)

RECURSIVE SortByScore(_, _)
\* list(unassigned) followed by the stable sort on get_total_score: ascending
\* score, ties in ascending index
SortByScore(S, sh) ==
  IF S = {} THEN <<>>
  ELSE LET c == CHOOSE x \in S : \A y \in S :
                   \/ get_total_score(sh[x]) < get_total_score(sh[y])
                   \/ get_total_score(sh[x]) = get_total_score(sh[y]) /\ x <= y
       IN  <<c>> \o SortByScore(S \ {c}, sh)

\* the hug camper c demands at 0-based rank r, or None
DemandOf(prefs, a, hp, period, r) ==
  IF Len(prefs) > r /\ hp[prefs[r + 1]].present
     /\ ~already_has_hug(a, period, prefs[r + 1])
  THEN prefs[r + 1] ELSE None

RECURSIVE DemKeys(_, _, _)
\* keys of the demanders dict in insertion order; d maps a camper to DemandOf
DemKeys(ul, d, seen) ==
  IF ul = <<>> THEN <<>>
  ELSE IF d[Head(ul)] = None \/ d[Head(ul)] \in seen THEN DemKeys(Tail(ul), d, seen)
       ELSE <<d[Head(ul)]>> \o DemKeys(Tail(ul), d, seen \cup {d[Head(ul)]})

RECURSIVE ShuffleEach(_, _, _)
\* for hug in demanders: random.shuffle(demanders[hug])
ShuffleEach(keys, dem, g) ==
  IF keys = <<>> THEN {[dem |-> dem, rng |-> g]}
  ELSE UNION {ShuffleEach(Tail(keys), [dem EXCEPT ![Head(keys)] = r.x], r.rng)
                : r \in shuffle(dem[Head(keys)], g)}

\* mutant: one seat too few
Take_OneTooFew(candidates, inst) ==
  Slice(candidates, inst.capacity - Cardinality(inst.enrolled) - 1)

\* mutant: one seat too many
Take_OneTooMany(candidates, inst) ==
  Slice(candidates, inst.capacity - Cardinality(inst.enrolled) + 1)

\* candidates[:spots]
Take(candidates, inst) ==
  Slice(candidates, inst.capacity - Cardinality(inst.enrolled))

RECURSIVE AdmitAll(_, _, _, _)
\* for hug, candidates in demanders.items(): admit take = candidates[:spots]
\* s = [asg, hp, log], period and rank are carried in s
AdmitAll(keys, dem, s, how) ==
  IF keys = <<>> THEN s
  ELSE LET h == Head(keys)
           take == Take(dem[h], s.hp[h])
           adm == Range(take)
       IN  AdmitAll(Tail(keys), dem,
             [s EXCEPT
                !.asg = [c \in Campers |->
                           IF c \in adm
                           THEN [s.asg[c] EXCEPT ![s.period] = [hug |-> h, how |-> how]]
                           ELSE s.asg[c]],
                !.hp = [s.hp EXCEPT ![h].enrolled = @ \cup adm],
                !.log = @ \cup {[rank |-> s.rank + 1, hug |-> h,
                                 demanders |-> Range(dem[h]), admitted |-> adm]}],
             how)

\* one iteration of a "for pref_rank in range(...)" loop of assign_period
\* s = [asg, hp, log, ul, rng, period, rank]
RankStep(s) ==
  LET d == [c \in Campers |->
              DemandOf(preferences[c][s.period], s.asg[c], s.hp, s.period, s.rank)]
      keys == DemKeys(s.ul, d, {})
      dem == [h \in Hugs |-> FilterSeq(s.ul, {c \in Campers : d[c] = h})]
  IN  {LET t == AdmitAll(keys, sh.dem, s, Pref(s.rank + 1))
       IN  [t EXCEPT !.rng = sh.rng,
                     !.ul = FilterSeq(s.ul, {c \in Campers : t.asg[c][s.period].hug = None}),
                     !.rank = s.rank + 1]
         : sh \in ShuffleEach(keys, dem, s.rng)}

\* range(3) followed by range(3, PREFERENCES_PER_PERIOD)
NumRanks == IF PREFERENCES_PER_PERIOD > 3 THEN PREFERENCES_PER_PERIOD ELSE 3

RECURSIVE RankLoop(_)
RankLoop(s) ==
  IF s.rank >= NumRanks THEN {s}
  ELSE UNION {RankLoop(t) : t \in RankStep(s)}

\* mutant: only the first available hug is tried
FirstFit_FirstOnly(avail, a, hp, period) ==
  IF avail = <<>> THEN None
  ELSE IF HasRoom(hp, Head(avail)) /\ ~already_has_hug(a, period, Head(avail))
       THEN Head(avail)
       ELSE None

RECURSIVE FirstFit(_, _, _, _)
\* for hug in available_hugim: the first with room that the camper does not hold
FirstFit(avail, a, hp, period) ==
  IF avail = <<>> THEN None
  ELSE IF HasRoom(hp, Head(avail)) /\ ~already_has_hug(a, period, Head(avail))
       THEN Head(avail)
       ELSE FirstFit(Tail(avail), a, hp, period)

RECURSIVE RandomFill_NoSkip(_, _, _)
\* mutant: the random fill does not skip a camper without preferences
RandomFill_NoSkip(ul, avail, s) ==
  IF ul = <<>> THEN s
  ELSE LET c == Head(ul)
           h == FirstFit(avail, s.asg[c], s.hp, s.period)
       IN  IF h = None
           THEN RandomFill_NoSkip(Tail(ul), avail, s)
           ELSE RandomFill_NoSkip(Tail(ul), avail,
                  [s EXCEPT !.asg[c][s.period] = [hug |-> h, how |-> Random],
                            !.hp[h].enrolled = @ \cup {c}])

RECURSIVE RandomFill_OneSeat(_, _, _)
\* mutant: the loop ends after its first assignment
RandomFill_OneSeat(ul, avail, s) ==
  IF ul = <<>> THEN s
  ELSE LET c == Head(ul)
           h == FirstFit(avail, s.asg[c], s.hp, s.period)
       IN  IF preferences[c][s.period] = <<>> \/ h = None
           THEN RandomFill_OneSeat(Tail(ul), avail, s)
           ELSE [s EXCEPT !.asg[c][s.period] = [hug |-> h, how |-> Random],
                          !.hp[h].enrolled = @ \cup {c}]

RECURSIVE RandomFill(_, _, _)
\* for idx in unassigned_list: skip on empty preferences, else first fit
RandomFill(ul, avail, s) ==
  IF ul = <<>> THEN s
  ELSE LET c == Head(ul)
           h == FirstFit(avail, s.asg[c], s.hp, s.period)
       IN  IF preferences[c][s.period] = <<>> \/ h = None
           THEN RandomFill(Tail(ul), avail, s)
           ELSE RandomFill(Tail(ul), avail,
                  [s EXCEPT !.asg[c][s.period] = [hug |-> h, how |-> Random],
                            !.hp[h].enrolled = @ \cup {c}])

\* the closing loop of assign_period: annotate who is still unassigned
Annotate(s) ==
  [s EXCEPT !.asg = [c \in Campers |->
      IF c \in Range(s.ul) /\ s.asg[c][s.period].hug = None
      THEN [s.asg[c] EXCEPT ![s.period].how =
              get_unassignment_reason(s.asg[c], preferences[c][s.period], s.period, s.hp)]
      ELSE s.asg[c]]]

\* mutant: every camper is taken as unassigned
assign_period_Everyone(asg, hp, sh, g, period) ==
  LET s0 == [asg |-> asg, hp |-> hp, log |-> {}, ul |-> SortByScore(Campers, sh),
             rng |-> g, period |-> period, rank |-> 0]
  IN  UNION {
        {Annotate(RandomFill(s.ul, av.x, [s EXCEPT !.rng = av.rng]))
           : av \in shuffle(FilterSeq(HugList(s.hp), {h \in Hugs : HasRoom(s.hp, h)}), s.rng)}
        : s \in RankLoop(s0)}

\* assign_period(campers, hugim_for_period, period): the set of results the
\* random generator allows
assign_period(asg, hp, sh, g, period) ==
  LET unassigned == {c \in Campers : asg[c][period].hug = None}
      s0 == [asg |-> asg, hp |-> hp, log |-> {}, ul |-> SortByScore(unassigned, sh),
             rng |-> g, period |-> period, rank |-> 0]
  IN  UNION {
        {Annotate(RandomFill(s.ul, av.x, [s EXCEPT !.rng = av.rng]))
           : av \in shuffle(FilterSeq(HugList(s.hp), {h \in Hugs : HasRoom(s.hp, h)}), s.rng)}
        : s \in RankLoop(s0)}

\* ------------------------------------------- Minimum Enforcer: force-fill
\* hug_to_campers[hug]: union of the enrolled sets of the hug's instances
HugToCampers(hg, h) ==
  UNION {IF hg[p][h].present THEN hg[p][h].enrolled ELSE {} : p \in Periods}

\* keys of hug_minimums in insertion order: first appearance over the periods
RECURSIVE FillOrder(_, _, _)
FillOrder(hg, p, seen) ==
  IF p > NumPeriods THEN <<>>
  ELSE LET new == FilterSeq(HugList(hg[p]), Hugs \ seen)
       IN  new \o FillOrder(hg, p + 1, seen \cup Range(new))

\* hug_minimums[hug]: the value written last, i.e. of the last period offering it
HugMinimum(hg, h) ==
  LET last == CHOOSE p \in Periods :
                /\ hg[p][h].present
                /\ \A q \in Periods : hg[q][h].present => q <= p
  IN  hg[last][h].min

RECURSIVE FirstEmptyPeriod_AnySlot(_, _, _, _)
\* mutant: the first period with room, whether the camper is assigned or not
FirstEmptyPeriod_AnySlot(p, a, hg, h) ==
  IF p > NumPeriods THEN 0
  ELSE IF hg[p][h].present /\ HasRoom(hg[p], h) THEN p
       ELSE FirstEmptyPeriod_AnySlot(p + 1, a, hg, h)

RECURSIVE FirstEmptyPeriod(_, _, _, _)
\* for period in periods_with_room: the first in which the camper is unassigned
FirstEmptyPeriod(p, a, hg, h) ==
  IF p > NumPeriods THEN 0
  ELSE IF hg[p][h].present /\ HasRoom(hg[p], h) /\ a[p].hug = None THEN p
       ELSE FirstEmptyPeriod(p + 1, a, hg, h)

\* mutant: the loop over available_campers ends after its first camper
ForceLoop_OneCamper(av, f, h, missing) ==
  IF av = <<>> THEN [f |-> f, missing |-> missing]
  ELSE LET c == Head(av)
           p == FirstEmptyPeriod(1, f.asg[c], f.hg, h)
       IN  IF p = 0 THEN [f |-> f, missing |-> missing]
           ELSE [f |-> [f EXCEPT
                          !.asg[c][p] = [hug |-> h, how |-> Forced_minimum],
                          !.hg[p][h].enrolled = @ \cup {c},
                          !.htc = [x \in Hugs |->
                                     IF x = h THEN f.htc[x] \cup {c} ELSE f.htc[x]]],
                 missing |-> missing - 1]

RECURSIVE ForceLoop(_, _, _, _)
\* for camper in available_campers: ... ; f = [asg, hg, htc], returns f with
\* the remaining value of missing
ForceLoop(av, f, h, missing) ==
  IF av = <<>> THEN [f |-> f, missing |-> missing]
  ELSE LET c == Head(av)
           p == FirstEmptyPeriod(1, f.asg[c], f.hg, h)
       IN  IF p = 0
           THEN IF missing <= 0 THEN [f |-> f, missing |-> missing]
                ELSE ForceLoop(Tail(av), f, h, missing)
           ELSE LET f2 == [f EXCEPT
                             !.asg[c][p] = [hug |-> h, how |-> Forced_minimum],
                             !.hg[p][h].enrolled = @ \cup {c},
                             !.htc = [x \in Hugs |->
                                        IF x = h THEN f.htc[x] \cup {c} ELSE f.htc[x]]]
                IN  IF missing - 1 <= 0 THEN [f |-> f2, missing |-> missing - 1]
                    ELSE ForceLoop(Tail(av), f2, h, missing - 1)

\* warning_msg before its first assignment
Unbound == [hug |-> None, missing |-> 0]

\* mutant: a shortfall of one is not reported
Warn_Late(f, h, missing) ==
  LET msg == IF missing > 1 THEN [hug |-> h, missing |-> missing] ELSE f.warning_msg
  IN  [f EXCEPT
         !.warning_msg = msg,
         !.printed = IF missing > 1 THEN @ \cup {msg} ELSE @,
         !.st_warnings = IF msg = Unbound THEN @
                         ELSE @ \cup {[during |-> h, hug |-> msg.hug, missing |-> msg.missing]}]

\* the tail of one iteration of "for hug, required_min in hug_minimums.items()":
\* set warning_msg and print when still missing, then st.warning(warning_msg),
\* which raises a swallowed NameError while warning_msg is unbound
Warn(f, h, missing) ==
  LET msg == IF missing > 0 THEN [hug |-> h, missing |-> missing] ELSE f.warning_msg
  IN  [f EXCEPT
         !.warning_msg = msg,
         !.printed = IF missing > 0 THEN @ \cup {msg} ELSE @,
         !.st_warnings = IF msg = Unbound THEN @
                         ELSE @ \cup {[during |-> h, hug |-> msg.hug, missing |-> msg.missing]}]

RECURSIVE FillHugs(_, _)
\* Step 3 of fill_minimums over the remaining keys of hug_minimums
\* f = [asg, hg, htc, rng, printed, st_warnings, warning_msg, mins]
FillHugs(order, f) ==
  IF order = <<>> THEN {f}
  ELSE LET h == Head(order)
           have_now == Cardinality(f.htc[h])
           available_campers == FilterSeq([i \in 1..NumCampers |-> i], Campers \ f.htc[h])
       IN  IF have_now >= f.mins[h] THEN FillHugs(Tail(order), f)
           ELSE UNION {
                  LET r == ForceLoop(sh.x, [f EXCEPT !.rng = sh.rng], h, f.mins[h] - have_now)
                  IN  FillHugs(Tail(order), Warn(r.f, h, r.missing))
                  : sh \in shuffle(available_campers, f.rng)}

fill_minimums(asg, hg, g) ==
  LET order == FillOrder(hg, 1, {})
  IN  FillHugs(order,
        [asg |-> asg, hg |-> hg, rng |-> g,
         htc |-> [h \in Hugs |-> HugToCampers(hg, h)],
         mins |-> [h \in Hugs |-> IF h \in Range(order) THEN HugMinimum(hg, h) ELSE 0],
         printed |-> {}, st_warnings |-> {}, warning_msg |-> Unbound])

\* ---------------------------------- Minimum Enforcer: cancel-and-reallocate
\* mutant: the comparison off by one
UnderMinimum_OffByOne(hp) ==
  {h \in Hugs : hp[h].present /\ Cardinality(hp[h].enrolled) + 1 < hp[h].min}

\* under_minimum of one period
UnderMinimum(hp) ==
  {h \in Hugs : hp[h].present /\ Cardinality(hp[h].enrolled) < hp[h].min}

\* mutant: the undersubscribed hug is deleted but its campers keep it
CancelStep_KeepsAssignments(e) ==
  LET um == [p \in Periods |-> UnderMinimum(e.hg[p])]
  IN  [e EXCEPT
         !.hg = [p \in Periods |-> [h \in Hugs |->
                    IF h \in um[p] THEN Absent ELSE e.hg[p][h]]],
         !.canceled = [p \in Periods |-> e.canceled[p] \cup um[p]],
         !.changes = \E p \in Periods : um[p] # {}]

\* mutant: the undersubscribed hug is emptied but not deleted
CancelStep_KeepsInstance(e) ==
  LET um == [p \in Periods |-> UnderMinimum(e.hg[p])]
  IN  [e EXCEPT
         !.asg = [c \in Campers |-> [p \in Periods |->
                    IF e.asg[c][p].hug \in um[p]
                    THEN [hug |-> None, how |-> None] ELSE e.asg[c][p]]],
         !.hg = [p \in Periods |-> [h \in Hugs |->
                    IF h \in um[p] THEN [e.hg[p][h] EXCEPT !.enrolled = {}]
                    ELSE e.hg[p][h]]],
         !.canceled = [p \in Periods |-> e.canceled[p] \cup um[p]],
         !.changes = \E p \in Periods : um[p] # {}]

\* mutant: a pass cancels the undersubscribed hugs of one period only
CancelStep_OnePeriod(e) ==
  LET all == [p \in Periods |-> UnderMinimum(e.hg[p])]
      um == [p \in Periods |->
               IF \E q \in Periods : q < p /\ all[q] # {} THEN {} ELSE all[p]]
  IN  [e EXCEPT
         !.asg = [c \in Campers |-> [p \in Periods |->
                    IF e.asg[c][p].hug \in um[p]
                    THEN [hug |-> None, how |-> None] ELSE e.asg[c][p]]],
         !.hg = [p \in Periods |-> [h \in Hugs |->
                    IF h \in um[p] THEN Absent ELSE e.hg[p][h]]],
         !.canceled = [p \in Periods |-> e.canceled[p] \cup um[p]],
         !.changes = \E p \in Periods : um[p] # {}]

\* step 1 of the while body: cancel the undersubscribed hugs of every period
\* e = [asg, hg, canceled, changes]
CancelStep(e) ==
  LET um == [p \in Periods |-> UnderMinimum(e.hg[p])]
  IN  [e EXCEPT
         !.asg = [c \in Campers |-> [p \in Periods |->
                    IF e.asg[c][p].hug \in um[p]
                    THEN [hug |-> None, how |-> None] ELSE e.asg[c][p]]],
         !.hg = [p \in Periods |-> [h \in Hugs |->
                    IF h \in um[p] THEN Absent ELSE e.hg[p][h]]],
         !.canceled = [p \in Periods |-> e.canceled[p] \cup um[p]],
         !.changes = \E p \in Periods : um[p] # {}]

\* mutant: only the first preference is tried
FirstPref_OnlyFirst(prefs, i, a, e, p) ==
  IF i > Len(prefs) THEN 0
  ELSE LET pref == prefs[i]
       IN  IF pref \notin e.canceled[p]
              /\ e.hg[p][pref].present /\ HasRoom(e.hg[p], pref)
              /\ \A p2 \in Periods : p2 # p => a[p2].hug # pref
           THEN i
           ELSE 0

RECURSIVE FirstPref(_, _, _, _, _)
\* for pref_index, pref in enumerate(prefs): 1-based index of the first
\* preference that is not canceled, present, has room and is not held in
\* another period; 0 if there is none
FirstPref(prefs, i, a, e, p) ==
  IF i > Len(prefs) THEN 0
  ELSE LET pref == prefs[i]
       IN  IF pref \notin e.canceled[p]
              /\ e.hg[p][pref].present /\ HasRoom(e.hg[p], pref)
              /\ \A p2 \in Periods : p2 # p => a[p2].hug # pref
           THEN i
           ELSE FirstPref(prefs, i + 1, a, e, p)

RECURSIVE Redistribute_FirstRank(_, _, _)
\* mutant: the reassignment is recorded as Pref_1 whatever the rank achieved
Redistribute_FirstRank(p, c, e) ==
  IF p > NumPeriods THEN e
  ELSE IF c > NumCampers THEN Redistribute_FirstRank(p + 1, 1, e)
  ELSE LET i == IF e.asg[c][p].hug = None
                THEN FirstPref(preferences[c][p], 1, e.asg[c], e, p) ELSE 0
       IN  IF i = 0 THEN Redistribute_FirstRank(p, c + 1, e)
           ELSE LET pref == preferences[c][p][i]
                IN  Redistribute_FirstRank(p, c + 1,
                      [e EXCEPT !.asg[c][p] = [hug |-> pref, how |-> Pref(1)],
                                !.hg[p][pref].enrolled = @ \cup {c}])

RECURSIVE Redistribute(_, _, _)
\* step 2 of the while body: for every period, for every camper in list order
Redistribute(p, c, e) ==
  IF p > NumPeriods THEN e
  ELSE IF c > NumCampers THEN Redistribute(p + 1, 1, e)
  ELSE LET i == IF e.asg[c][p].hug = None
                THEN FirstPref(preferences[c][p], 1, e.asg[c], e, p) ELSE 0
       IN  IF i = 0 THEN Redistribute(p, c + 1, e)
           ELSE LET pref == preferences[c][p][i]
                IN  Redistribute(p, c + 1,
                      [e EXCEPT !.asg[c][p] = [hug |-> pref, how |-> Pref(i)],
                                !.hg[p][pref].enrolled = @ \cup {c}])

\* one execution of the body of "while changes"
EnforcePass(e) == Redistribute(1, 1, CancelStep(e))

\* ------------------------------------------------------------------ Scorer
\* mutant: the point table ascending
PREF_POINTS_Ascending(n) == IF n \in 1..5 THEN n ELSE 0

\* PREF_POINTS.get(n, 0)
PREF_POINTS(n) == CASE n = 1 -> 5 [] n = 2 -> 4 [] n = 3 -> 3 [] n = 4 -> 2
                    [] n = 5 -> 1 [] OTHER -> 0

\* points of one assignment: PREF_POINTS.get(n, 0) for Pref_n, else nothing
Points(how) ==
  IF \E n \in 1..5 : how = Pref(n)
  THEN PREF_POINTS(CHOOSE n \in 1..5 : how = Pref(n)) ELSE 0

RECURSIVE WeekScore(_, _)
WeekScore(a, p) == IF p > NumPeriods THEN 0 ELSE Points(a[p].how) + WeekScore(a, p + 1)

\* mutant: the score replaces the history
StoreScore_Overwrite(sh, score) == <<score>>

\* camper['score_history'].append(score)
StoreScore(sh, score) == Append(sh, score)

\* ---------------------------------------------------------------- analytics
\* googlesheets.get_all_camps_analytics.  A camp name is its position in the
\* sorted list of all names.  A read of a camp is what read_config does for
\* it: it raises, returns None, or returns a dict whose keys may be missing.
\* a key the dict does not hold, a value of n rows, and a value len() raises
\* TypeError on
Missing == [present |-> FALSE, sized |-> TRUE, len |-> 0]
Sized(n) == [present |-> TRUE, sized |-> TRUE, len |-> n]
Bad == [present |-> TRUE, sized |-> FALSE, len |-> 0]
\* the dict holds no assignments_df, or the table df
NoTable == [present |-> FALSE, columns |-> <<>>]
Table(df) == [present |-> TRUE, columns |-> df]
\* a cell holding None / NaN
NA == "<NA>"
StatusOK == "OK"
StatusReadFailed == "Error (Read Failed)"
\* f'Error: {str(e)}' for the exception of read_config and for the TypeError
StatusReadRaised == "Error: read_config"
StatusLenRaised == "Error: object has no len()"

Column(stem, suffix, cells) == [stem |-> stem, suffix |-> suffix, cells |-> cells]
\* the assignments_df of the test, and one with blank and literal cells
TableA ==
  << Column("p1", "_Assigned", <<"Chess", NA, "">>),
     Column("p2", "_Assigned", <<"Chess", "Chess", "nan">>),
     Column("Other", "", <<"", "", "">>) >>
TableB ==
  << Column("p1", "_Assigned", <<" ", "None", " nan">>),
     Column("p1", "_How", <<NA, "NaN", "Chess">>) >>
Tables == {Table(TableA), Table(TableB)}

\* str(v).strip() and str(v).lower() on the cell values of the tables
astype_str(v) == IF v = NA THEN "nan" ELSE v
strip(v) == CASE v = " " -> "" [] v = " nan" -> "nan" [] OTHER -> v
lower(v) == CASE v = "NaN" -> "nan" [] v = "None" -> "none" [] v = "Chess" -> "chess"
              [] OTHER -> v

\* mask = s.isna() | (s.astype(str).str.strip() == '')
\*        | s.astype(str).str.lower().isin(['nan', 'none'])
mask(v) ==
  \/ v = NA
  \/ strip(astype_str(v)) = ""
  \/ lower(astype_str(v)) \in {"nan", "none"}

\* mask.sum() of one column
MaskSum(cells) == Cardinality({i \in 1..Len(cells) : mask(cells[i])})

RECURSIVE unassigned_count(_)
\* the loop over assigned_cols, the columns whose name ends with '_Assigned'
unassigned_count(df) ==
  IF df = <<>> THEN 0
  ELSE (IF Head(df).suffix = "_Assigned" THEN MaskSum(Head(df).cells) ELSE 0)
       + unassigned_count(Tail(df))

ReadRaises == [kind |-> "raises", prefs_df |-> Missing, hugim_df |-> Missing,
               periods |-> Missing, assignments_df |-> NoTable]
ReadNone == [kind |-> "none", prefs_df |-> Missing, hugim_df |-> Missing,
             periods |-> Missing, assignments_df |-> NoTable]
\* the dicts read_config may return; the one without any key is {}
ReadDicts ==
  [kind : {"dict"}, prefs_df : {Missing, Sized(2)}, hugim_df : {Missing, Sized(1)},
   periods : {Missing, Sized(1), Bad}, assignments_df : {NoTable} \cup Tables]
ReadOutcomes == {ReadRaises, ReadNone} \cup ReadDicts

\* bool(config_data)
Truthy(rd) ==
  /\ rd.kind = "dict"
  /\ \/ rd.prefs_df # Missing
     \/ rd.hugim_df # Missing
     \/ rd.periods # Missing
     \/ rd.assignments_df # NoTable

EmptyRow(camp) ==
  [Camp_Name |-> camp, Campers |-> 0, Activities |-> 0, Periods |-> 0,
   Unassigned_Slots |-> 0, Status |-> StatusOK]

\* the body of the try block once config_data is truthy
Counted(row, rd) ==
  LET r1 == IF rd.prefs_df.present THEN [row EXCEPT !.Campers = rd.prefs_df.len]
            ELSE row
      r2 == IF rd.hugim_df.present THEN [r1 EXCEPT !.Activities = rd.hugim_df.len]
            ELSE r1
      r3 == IF rd.periods.present THEN [r2 EXCEPT !.Periods = rd.periods.len]
            ELSE r2
  IN IF rd.periods.present /\ ~rd.periods.sized
     THEN [r2 EXCEPT !.Status = StatusLenRaised]
     ELSE IF rd.assignments_df.present
          THEN [r3 EXCEPT !.Unassigned_Slots =
                            unassigned_count(rd.assignments_df.columns)]
          ELSE r3

\* a read failure leaves the status 'OK'
analytics_row_FailedOK(camp, rd) ==
  IF rd.kind = "raises" THEN [EmptyRow(camp) EXCEPT !.Status = StatusReadRaised]
  ELSE IF Truthy(rd) THEN Counted(EmptyRow(camp), rd)
  ELSE EmptyRow(camp)

\* the row of one camp: the try / except of the loop body
analytics_row(camp, rd) ==
  IF rd.kind = "raises" THEN [EmptyRow(camp) EXCEPT !.Status = StatusReadRaised]
  ELSE IF Truthy(rd) THEN Counted(EmptyRow(camp), rd)
  ELSE [EmptyRow(camp) EXCEPT !.Status = StatusReadFailed]

\* get_all_camps_analytics is not running
AnalyticsIdle ==
  /\ camp_names = <<>>
  /\ reads = <<>>
  /\ analytics_data = <<>>
  /\ camp_idx = 0
  /\ analytics_pc = "idle"

\* ------------------------------------------------------------------ inputs
\* load_preferences: per period an ordered list without duplicates, no longer
\* than the number of preference columns
PrefLists ==
  {q \in UNION {[1..n -> Hugs] : n \in 0..MaxPrefs} :
     \A i, j \in 1..Len(q) : i # j => q[i] # q[j]}

\* load_preferences: score_history is [score] for a non-zero score column, else []
ScoreHistories == {<<>>} \cup {<<v>> : v \in 1..MaxScore}

\* load_hugim: one row per hug gives capacity and minimum (non-negative) and
\* the periods that offer it; every offering period gets its own instance
Catalog(cap, mn, off) ==
  [p \in Periods |-> [h \in Hugs |->
     IF p \in off[h]
     THEN [present |-> TRUE, capacity |-> cap[h], min |-> mn[h], enrolled |-> {}]
     ELSE Absent]]

\* load_preferences: 'assignments': {period: {'hug': None, 'how': None}}
EmptyAssignments == [c \in Campers |-> [p \in Periods |-> [hug |-> None, how |-> None]]]

Strategies == {"Cancel", "Force"}

\* Input families.  FreePreferences: every preference profile over catalogs
\* whose hugs share capacity and minimum and are offered in every period; the
\* first camper may bring a prior score.  FreeCatalog: capacity, minimum and
\* offering periods chosen per hug (the first hug is offered in the first
\* period, the second hug nowhere, late or always) over profiles in which a
\* camper ranks the same list in every period.
FreePreferences ==
  /\ preferences \in [Campers -> [Periods -> PrefLists]]
  /\ \E c \in 1..MaxCapacity, m \in 0..MaxMinimum :
       catalog = Catalog([h \in Hugs |-> c], [h \in Hugs |-> m], [h \in Hugs |-> Periods])
  /\ \E sh \in ScoreHistories :
       base_scores = [d \in Campers |-> IF d = 1 THEN sh ELSE <<>>]

Offerings ==
  {off \in [Hugs -> SUBSET Periods] :
     /\ 1 \in off[HugOrder[1]]
     /\ off[HugOrder[2]] \in {{}, {NumPeriods}, Periods}}

FreeCatalog ==
  /\ \E q \in [Campers -> PrefLists] :
       preferences = [c \in Campers |-> [p \in Periods |-> q[c]]]
  /\ \E cap \in [Hugs -> 0..MaxCapacity], mn \in [Hugs -> 0..MaxMinimum],
        off \in Offerings :
       /\ \A h \in Hugs : off[h] = {} => cap[h] = 0 /\ mn[h] = 0
       /\ catalog = Catalog(cap, mn, off)
  /\ base_scores = [c \in Campers |-> <<>>]

\* the state after the input files are loaded, with generator state g
Loaded(g) ==
  /\ roster = Campers
  /\ AnalyticsIdle
  /\ FreePreferences \/ FreeCatalog
  /\ strategy \in Strategies
  /\ assignments = EmptyAssignments
  /\ score_history = base_scores
  /\ hugim = catalog
  /\ rng = g
  /\ pc = "run_allocation"
  /\ cur = 1
  /\ canceled_hugs_by_period = [p \in Periods |-> {}]
  /\ changes = FALSE
  /\ passes = 0
  /\ printed = {}
  /\ st_warnings = {}
  /\ warning_msg = Unbound
  /\ rank_log = {}
  /\ under_seen = {}
  /\ displaced = {}
  /\ phases = <<>>
  /\ runs = 1
  /\ fresh = TRUE
  /\ prev_table = EmptyAssignments

Init == Loaded(AnyRng)

inputs == <<roster, preferences, catalog, base_scores, strategy>>
cancel_vars == <<canceled_hugs_by_period, changes, passes, under_seen, displaced>>
warn_vars == <<printed, st_warnings, warning_msg>>
cycle_vars == <<runs, fresh, prev_table>>

\* ----------------------------------------------------------------- actions
\* run_allocation: "for period in PERIODS: assign_period(campers, hugim[period], period)"
AssignPeriod ==
  /\ pc = "run_allocation"
  /\ cur <= NumPeriods
  /\ roster # {}
  /\ \E out \in assign_period(assignments, hugim[cur], score_history, rng, cur) :
       /\ assignments' = out.asg
       /\ hugim' = [hugim EXCEPT ![cur] = out.hp]
       /\ rng' = out.rng
       /\ rank_log' = out.log
  /\ cur' = cur + 1
  /\ phases' = Append(phases, "assign_period")
  /\ UNCHANGED <<analytics_vars, inputs, score_history, pc, cancel_vars, warn_vars, cycle_vars>>

\* assign_period on an empty campers list: "campers[0]" raises IndexError,
\* which leaves run_allocation and is caught by main
AssignPeriodRaises ==
  /\ pc = "run_allocation"
  /\ cur <= NumPeriods
  /\ roster = {}
  /\ AnalyticsIdle
  /\ pc' = "raised"
  /\ phases' = Append(phases, "assign_period")
  /\ UNCHANGED <<analytics_vars, inputs, assignments, score_history, hugim, rng, cur, cancel_vars,
                 warn_vars, rank_log, cycle_vars>>

\* a call of fill_minimums(campers, hugim)
FillCall(next) ==
  /\ \E out \in fill_minimums(assignments, hugim, rng) :
       /\ assignments' = out.asg
       /\ hugim' = out.hg
       /\ rng' = out.rng
       /\ printed' = out.printed
       /\ st_warnings' = out.st_warnings
       /\ warning_msg' = out.warning_msg
  /\ pc' = next
  /\ phases' = Append(phases, "fill_minimums")
  /\ UNCHANGED <<analytics_vars, inputs, score_history, cur, cancel_vars, rank_log, cycle_vars>>

\* run_allocation: the closing "fill_minimums(campers, hugim)"
RunAllocationFill ==
  /\ pc = "run_allocation"
  /\ cur > NumPeriods
  /\ FillCall("strategy")

\* main: "else: fill_minimums(campers, hug_data)"
StrategyFill ==
  /\ pc = "strategy"
  /\ strategy = "Force"
  /\ FillCall("score")

\* main: "if strategy.startswith('Cancel'): enforce_minimums_cancel_and_reallocate":
\* entry of the call up to the first test of "while changes"
EnforceEnter ==
  /\ pc = "strategy"
  /\ strategy = "Cancel"
  /\ canceled_hugs_by_period' = [p \in Periods |-> {}]
  /\ changes' = TRUE
  /\ passes' = 0
  /\ under_seen' = {}
  /\ displaced' = {}
  /\ pc' = "enforce"
  /\ phases' = Append(phases, "enforce_minimums_cancel_and_reallocate")
  /\ UNCHANGED <<analytics_vars, inputs, assignments, score_history, hugim, rng, cur, warn_vars,
                 rank_log, cycle_vars>>

\* history: the instances whose enrollment is below their minimum right now
BelowMinimum ==
  {x \in Periods \X Hugs :
     /\ hugim[x[1]][x[2]].present
     /\ Cardinality(hugim[x[1]][x[2]].enrolled) < hugim[x[1]][x[2]].min}

\* one execution of the body of "while changes"
EnforceLoop ==
  /\ pc = "enforce"
  /\ changes
  /\ passes < MaxPasses
  /\ LET e == EnforcePass([asg |-> assignments, hg |-> hugim,
                           canceled |-> canceled_hugs_by_period,
                           changes |-> FALSE])
     IN  /\ assignments' = e.asg
         /\ hugim' = e.hg
         /\ canceled_hugs_by_period' = e.canceled
         /\ changes' = e.changes
  /\ under_seen' = under_seen \cup BelowMinimum
  /\ displaced' = displaced \cup
       {x \in Campers \X Periods :
          /\ assignments[x[1]][x[2]].hug # None
          /\ <<x[2], assignments[x[1]][x[2]].hug>> \in BelowMinimum}
  /\ passes' = passes + 1
  /\ UNCHANGED <<analytics_vars, inputs, score_history, rng, pc, cur, warn_vars, rank_log,
                 phases, cycle_vars>>

\* exit of the while loop and return of the call
EnforceReturn ==
  /\ pc = "enforce"
  /\ ~changes
  /\ pc' = "score"
  /\ UNCHANGED <<analytics_vars, inputs, assignments, score_history, hugim, rng, cur, cancel_vars,
                 warn_vars, rank_log, phases, cycle_vars>>

\* main: calculate_and_store_weekly_scores(campers), then the tables are saved
CalculateScores ==
  /\ pc = "score"
  /\ score_history' = [c \in Campers |->
                         StoreScore(score_history[c], WeekScore(assignments[c], 1))]
  /\ pc' = "done"
  /\ phases' = Append(phases, "calculate_and_store_weekly_scores")
  /\ UNCHANGED <<analytics_vars, inputs, assignments, hugim, rng, cur, cancel_vars, warn_vars,
                 rank_log, cycle_vars>>

\* the input files are loaded again for the next cycle
Reload ==
  /\ assignments' = EmptyAssignments
  /\ score_history' = base_scores
  /\ hugim' = catalog
  /\ cur' = 1
  /\ pc' = "run_allocation"
  /\ phases' = <<>>
  /\ rank_log' = {}
  /\ prev_table' = assignments
  /\ runs' = runs + 1
  /\ UNCHANGED <<analytics_vars, inputs, cancel_vars, warn_vars>>

\* main: "Allow Rerun" and "Run Allocation" again in the running process; the
\* generator was seeded once, when allocator was imported
Rerun ==
  /\ pc = "done"
  /\ runs < MaxRuns
  /\ Reload
  /\ fresh' = FALSE
  /\ rng' = rng

\* a new process imports allocator: random.seed(RANDOM_SEED)
NewProcess ==
  /\ pc = "done"
  /\ runs < MaxRuns
  /\ Reload
  /\ fresh' = TRUE
  /\ rng' = [rng EXCEPT !.pos = 0]

Next ==
  \/ AssignPeriod
  \/ RunAllocationFill
  \/ StrategyFill
  \/ EnforceEnter
  \/ EnforceLoop
  \/ EnforceReturn
  \/ CalculateScores

\* one allocation cycle on every input, under every stream of draws
Spec == Init /\ [][Next]_vars

\* repeated cycles on the same input files, in the running process or in a
\* new one, over the inputs without a prior score
InitCycles ==
  /\ Loaded(SeededRng)
  /\ FreePreferences
  /\ base_scores = [c \in Campers |-> <<>>]

NextCycles ==
  \/ Next
  \/ Rerun
  \/ NewProcess

SpecCycles == InitCycles /\ [][NextCycles]_vars

\* the methods an Assignment Table can hold when the Scorer reads it: the
\* engine's methods, a rank beyond the point table, the method written by the
\* manual override of the reports page, a reason, and unset
Methods == PrefMethods \cup {"Pref_6", Random, Forced_minimum, "Manual_Override",
                             ReasonNoPrefs, None}

\* the Scorer on every Assignment Table over Methods
InitScorer ==
  /\ roster = Campers
  /\ AnalyticsIdle
  /\ preferences = [c \in Campers |-> [p \in Periods |-> <<>>]]
  /\ catalog = Catalog([h \in Hugs |-> 1], [h \in Hugs |-> 0], [h \in Hugs |-> Periods])
  /\ \E sh \in ScoreHistories :
       base_scores = [d \in Campers |-> IF d = 1 THEN sh ELSE <<>>]
  /\ strategy = "Force"
  /\ \E how \in [Campers -> [Periods -> Methods]] :
       assignments = [c \in Campers |-> [p \in Periods |->
                        [hug |-> IF how[c][p] \in {ReasonNoPrefs, None} THEN None
                                 ELSE HugOrder[p],
                         how |-> how[c][p]]]]
  /\ score_history = base_scores
  /\ hugim = catalog
  /\ rng = AnyRng
  /\ pc = "score"
  /\ cur = NumPeriods + 1
  /\ canceled_hugs_by_period = [p \in Periods |-> {}]
  /\ changes = FALSE
  /\ passes = 0
  /\ printed = {}
  /\ st_warnings = {}
  /\ warning_msg = Unbound
  /\ rank_log = {}
  /\ under_seen = {}
  /\ displaced = {}
  /\ phases = <<>>
  /\ runs = 1
  /\ fresh = TRUE
  /\ prev_table = EmptyAssignments

NextScorer == CalculateScores

SpecScorer == InitScorer /\ [][NextScorer]_vars

\* assign_period called on tables that already hold assignments (written by
\* the manual override): every consistent table over catalogs whose hugs
\* share a capacity and are offered in every period
InitPass ==
  /\ roster = Campers
  /\ AnalyticsIdle
  /\ preferences \in [Campers -> [Periods -> PrefLists]]
  /\ \E c \in 1..MaxCapacity :
       catalog = Catalog([h \in Hugs |-> c], [h \in Hugs |-> 0], [h \in Hugs |-> Periods])
  /\ base_scores = [c \in Campers |-> <<>>]
  /\ strategy = "Force"
  /\ \E held \in [Campers -> [Periods -> Hugs \cup {None}]] :
       /\ \A c \in Campers : \A p, q \in Periods :
            p # q /\ held[c][p] # None => held[c][p] # held[c][q]
       /\ \A p \in Periods, h \in Hugs :
            Cardinality({c \in Campers : held[c][p] = h}) <= catalog[p][h].capacity
       /\ assignments = [c \in Campers |-> [p \in Periods |->
            IF held[c][p] = None THEN [hug |-> None, how |-> None]
            ELSE [hug |-> held[c][p], how |-> "Manual_Override"]]]
       /\ hugim = [p \in Periods |-> [h \in Hugs |->
            [catalog[p][h] EXCEPT !.enrolled = {c \in Campers : held[c][p] = h}]]]
  /\ score_history = base_scores
  /\ rng = AnyRng
  /\ pc = "run_allocation"
  /\ cur = 1
  /\ canceled_hugs_by_period = [p \in Periods |-> {}]
  /\ changes = FALSE
  /\ passes = 0
  /\ printed = {}
  /\ st_warnings = {}
  /\ warning_msg = Unbound
  /\ rank_log = {}
  /\ under_seen = {}
  /\ displaced = {}
  /\ phases = <<>>
  /\ runs = 1
  /\ fresh = TRUE
  /\ prev_table = EmptyAssignments

NextPass == AssignPeriod

SpecPass == InitPass /\ [][NextPass]_vars

\* the closing loop of assign_period alone, on any table: the reason of every
\* participant unassigned in the period
Diagnose ==
  /\ pc = "run_allocation"
  /\ cur <= NumPeriods
  /\ LET unassigned == {c \in Campers : assignments[c][cur].hug = None}
         s == Annotate([asg |-> assignments, hp |-> hugim[cur], period |-> cur,
                        ul |-> SortByScore(unassigned, score_history)])
     IN  assignments' = s.asg
  /\ cur' = cur + 1
  /\ phases' = Append(phases, "get_unassignment_reason")
  /\ UNCHANGED <<analytics_vars, inputs, score_history, hugim, rng, pc, cancel_vars, warn_vars,
                 rank_log, cycle_vars>>

\* get_unassignment_reason on every consistent table over the catalogs of
\* FreeCatalog (minimum 0), each participant ranking one list in every period
InitReason ==
  /\ roster = Campers
  /\ AnalyticsIdle
  /\ \E q \in [Campers -> PrefLists] :
       preferences = [c \in Campers |-> [p \in Periods |-> q[c]]]
  /\ \E cap \in [Hugs -> 0..MaxCapacity], off \in Offerings :
       /\ \A h \in Hugs : off[h] = {} => cap[h] = 0
       /\ catalog = Catalog(cap, [h \in Hugs |-> 0], off)
  /\ base_scores = [c \in Campers |-> <<>>]
  /\ strategy = "Force"
  /\ \E held \in [Campers -> [Periods -> Hugs \cup {None}]] :
       /\ \A c \in Campers : \A p, q \in Periods :
            p # q /\ held[c][p] # None => held[c][p] # held[c][q]
       /\ \A p \in Periods, h \in Hugs :
            /\ Cardinality({c \in Campers : held[c][p] = h}) <= catalog[p][h].capacity
            /\ (\E c \in Campers : held[c][p] = h) => catalog[p][h].present
       /\ assignments = [c \in Campers |-> [p \in Periods |->
            IF held[c][p] = None THEN [hug |-> None, how |-> None]
            ELSE [hug |-> held[c][p], how |-> Random]]]
       /\ hugim = [p \in Periods |-> [h \in Hugs |->
            [catalog[p][h] EXCEPT !.enrolled = {c \in Campers : held[c][p] = h}]]]
  /\ score_history = base_scores
  /\ rng = AnyRng
  /\ pc = "run_allocation"
  /\ cur = 1
  /\ canceled_hugs_by_period = [p \in Periods |-> {}]
  /\ changes = FALSE
  /\ passes = 0
  /\ printed = {}
  /\ st_warnings = {}
  /\ warning_msg = Unbound
  /\ rank_log = {}
  /\ under_seen = {}
  /\ displaced = {}
  /\ phases = <<>>
  /\ runs = 1
  /\ fresh = TRUE
  /\ prev_table = EmptyAssignments

NextReason == Diagnose

SpecReason == InitReason /\ [][NextReason]_vars

\* the input files with no participant row: every catalog of FreeCatalog
InitEmpty ==
  /\ roster = {}
  /\ AnalyticsIdle
  /\ preferences = <<>>
  /\ \E cap \in [Hugs -> 0..MaxCapacity], mn \in [Hugs -> 0..MaxMinimum],
        off \in Offerings :
       /\ \A h \in Hugs : off[h] = {} => cap[h] = 0 /\ mn[h] = 0
       /\ catalog = Catalog(cap, mn, off)
  /\ base_scores = <<>>
  /\ strategy \in Strategies
  /\ assignments = <<>>
  /\ score_history = <<>>
  /\ hugim = catalog
  /\ rng = AnyRng
  /\ pc = "run_allocation"
  /\ cur = 1
  /\ canceled_hugs_by_period = [p \in Periods |-> {}]
  /\ changes = FALSE
  /\ passes = 0
  /\ printed = {}
  /\ st_warnings = {}
  /\ warning_msg = Unbound
  /\ rank_log = {}
  /\ under_seen = {}
  /\ displaced = {}
  /\ phases = <<>>
  /\ runs = 1
  /\ fresh = TRUE
  /\ prev_table = <<>>

NextEmpty == AssignPeriodRaises

SpecEmpty == InitEmpty /\ [][NextEmpty]_vars

\* the allocation engine is not running
EngineIdle ==
  /\ roster = {}
  /\ preferences = <<>>
  /\ catalog = Catalog([h \in Hugs |-> 0], [h \in Hugs |-> 0], [h \in Hugs |-> {}])
  /\ base_scores = <<>>
  /\ strategy = "Cancel"
  /\ assignments = <<>>
  /\ score_history = <<>>
  /\ hugim = catalog
  /\ rng = AnyRng
  /\ pc = "idle"
  /\ cur = 1
  /\ canceled_hugs_by_period = [p \in Periods |-> {}]
  /\ changes = FALSE
  /\ passes = 0
  /\ printed = {}
  /\ st_warnings = {}
  /\ warning_msg = Unbound
  /\ rank_log = {}
  /\ under_seen = {}
  /\ displaced = {}
  /\ phases = <<>>
  /\ runs = 1
  /\ fresh = TRUE
  /\ prev_table = <<>>

engine_vars == <<inputs, assignments, score_history, hugim, rng, pc, cur,
                 cancel_vars, warn_vars, rank_log, phases, cycle_vars>>

\* sorted(list(camp_names)): the names of a set of camps in increasing order
RECURSIVE Sorted(_)
Sorted(S) ==
  IF S = {} THEN <<>>
  ELSE LET m == CHOOSE x \in S : \A y \in S : x <= y
       IN <<m>> \o Sorted(S \ {m})

\* get_all_camps_analytics up to the for loop: any set of camps, any reads
InitAnalytics ==
  /\ EngineIdle
  /\ \E S \in SUBSET (1..MaxCamps) :
       /\ camp_names = Sorted(S)
       /\ reads \in [S -> ReadOutcomes]
  /\ analytics_data = <<>>
  /\ camp_idx = 0
  /\ analytics_pc = "loop"

\* one iteration of the for loop: the row of camp_names[idx] is appended
AnalyticsRow ==
  /\ analytics_pc = "loop"
  /\ camp_idx < Len(camp_names)
  /\ LET camp == camp_names[camp_idx + 1]
     IN analytics_data' = Append(analytics_data, analytics_row(camp, reads[camp]))
  /\ camp_idx' = camp_idx + 1
  /\ UNCHANGED <<camp_names, reads, analytics_pc, engine_vars>>

\* return pd.DataFrame(analytics_data)
AnalyticsReturn ==
  /\ analytics_pc = "loop"
  /\ camp_idx = Len(camp_names)
  /\ analytics_pc' = "returned"
  /\ UNCHANGED <<camp_names, reads, analytics_data, camp_idx, engine_vars>>

NextAnalytics == AnalyticsRow \/ AnalyticsReturn

SpecAnalytics == InitAnalytics /\ [][NextAnalytics]_vars

TypeOK ==
  /\ pc \in {"run_allocation", "strategy", "enforce", "score", "done", "raised",
            "idle"}
  /\ cur \in 1..(NumPeriods + 1)
  /\ roster \subseteq Campers
  /\ \A c \in roster, p \in Periods :
       assignments[c][p].hug \in Hugs \cup {None}

\* ------------------------------------------------------------------ claims
Instances == {x \in Periods \X Hugs : hugim[x[1]][x[2]].present}
Enrolled(x) == hugim[x[1]][x[2]].enrolled
Capacity(x) == hugim[x[1]][x[2]].capacity
Minimum(x) == hugim[x[1]][x[2]].min

\* a call of fill_minimums has just returned
FillReturned == pc = "strategy" \/ (strategy = "Force" /\ pc \in {"score", "done"})
\* the call of enforce_minimums_cancel_and_reallocate has returned
EnforceReturned == strategy = "Cancel" /\ pc \in {"score", "done"}

\* C1: after every phase of a run every remaining activity instance has at
\* most capacity participants enrolled.
C1_CapacityInvariant ==
  \A x \in Instances : Cardinality(Enrolled(x)) <= Capacity(x)

\* an instance is full and a demander of some rank was turned away
C1_Witness ==
  /\ \E x \in Instances : Capacity(x) > 0 /\ Cardinality(Enrolled(x)) = Capacity(x)
  /\ \E e \in rank_log : e.admitted # e.demanders

\* C2: after every phase of a run no participant holds the same activity in
\* two different periods.
C2_UniquenessAcrossWeek ==
  \A c \in Campers : \A p, q \in Periods :
    p # q /\ assignments[c][p].hug # None => assignments[c][p].hug # assignments[c][q].hug

\* at the end of a cycle a participant holds in one period the activity that
\* is their first choice of another period, where it is offered with a free seat
C2_Witness ==
  /\ pc = "done"
  /\ \E c \in Campers : \E p, q \in Periods :
       /\ p # q
       /\ assignments[c][p].hug # None
       /\ preferences[c][q] # <<>>
       /\ preferences[c][q][1] = assignments[c][p].hug
       /\ hugim[q][assignments[c][p].hug].present
       /\ HasRoom(hugim[q], assignments[c][p].hug)

\* C3: within one assign_period pass, at every rank and activity, nobody with
\* a strictly higher cumulative score is admitted while a demander of that
\* rank and activity is turned away.
C3_MonotonicRankSatisfaction ==
  pc = "run_allocation" =>
    \A e \in rank_log : \A c \in e.demanders \ e.admitted : \A d \in e.admitted :
      get_total_score(score_history[d]) <= get_total_score(score_history[c])

\* C4: when cancel-and-reallocate returns, every remaining instance meets its
\* minimum, and every instance that was found below minimum is deleted and
\* recorded as canceled for its period.
C4_MinimumConvergence ==
  EnforceReturned =>
    /\ \A x \in Instances : Cardinality(Enrolled(x)) >= Minimum(x)
    /\ \A x \in under_seen :
         ~hugim[x[1]][x[2]].present /\ x[2] \in canceled_hugs_by_period[x[1]]

\* the call returned after canceling an instance and keeping another one that
\* has a minimum to meet
C4_Witness ==
  /\ EnforceReturned
  /\ under_seen # {}
  /\ \E x \in Instances : Minimum(x) > 0

\* C5: exactly one minimum-enforcement strategy executes per cycle: under
\* cancel-and-reallocate fill_minimums never runs and nobody is Forced_minimum,
\* under force-fill no instance is canceled.
C5_OneStrategyPerCycle ==
  /\ strategy = "Cancel" =>
       /\ "fill_minimums" \notin Range(phases)
       /\ \A c \in Campers, p \in Periods : assignments[c][p].how # Forced_minimum
  /\ strategy = "Force" =>
       /\ "enforce_minimums_cancel_and_reallocate" \notin Range(phases)
       /\ \A p \in Periods, h \in Hugs : hugim[p][h].present = catalog[p][h].present

\* C6 as claimed: when fill_minimums returns, every instance has its minimum
\* enrolled or a shortfall warning names its activity.
C6_ForceFillPerInstance ==
  FillReturned =>
    \A x \in Instances :
      \/ Cardinality(Enrolled(x)) >= Minimum(x)
      \/ \E w \in printed : w.hug = x[2]
      \/ \E w \in st_warnings : w.hug = x[2]

\* C6 as amended: when fill_minimums returns, every activity has its minimum
\* enrolled over all of its period instances together, or a shortfall warning
\* naming it was printed.
C6_ForceFillAggregated ==
  FillReturned =>
    \A h \in Hugs :
      (\E p \in Periods : hugim[p][h].present) =>
        \/ Cardinality(HugToCampers(hugim, h)) >= HugMinimum(hugim, h)
        \/ \E w \in printed : w.hug = h

\* fill_minimums returned after forcing somebody in and after reporting a shortfall
C6_Witness ==
  /\ FillReturned
  /\ printed # {}
  /\ \E c \in Campers, p \in Periods : assignments[c][p].how = Forced_minimum

\* C7: two cycles on identical inputs under the same seed produce the same
\* Assignment Table, in a new process and in the running process alike.
C7_DeterminismUnderSeed ==
  pc = "done" /\ runs > 1 => assignments = prev_table

\* C8: the while loop of cancel-and-reallocate never runs more than (number
\* of activity instances + 1) passes: at that count the loop test fails, and
\* the call returns after a pass that canceled nothing.
C8_Termination ==
  LET NumInstances == Cardinality({x \in Periods \X Hugs : catalog[x[1]][x[2]].present})
  IN  /\ passes <= NumInstances + 1
      /\ pc = "enforce" /\ passes = NumInstances + 1 => ~changes
      /\ EnforceReturned => ~changes /\ passes >= 1

\* the call returned after a pass that canceled and a pass that did not
C8_Witness ==
  /\ pc = "score"
  /\ strategy = "Cancel"
  /\ passes = 2
  /\ \E p \in Periods : canceled_hugs_by_period[p] # {}

\* C9: at the end of a run every empty slot carries a non-empty reason in
\* its method field.
C9_EveryEmptySlotExplained ==
  pc = "done" =>
    \A c \in Campers, p \in Periods :
      assignments[c][p].hug = None => assignments[c][p].how \in Reasons

\* C10: when run_allocation returns, a participant without preferences for a
\* period is unassigned in it with the reason "No preferences listed for
\* this period."
C10_NoPreferencesScenario ==
  pc = "strategy" =>
    \A c \in Campers, p \in Periods :
      preferences[c][p] = <<>> =>
        assignments[c][p] = [hug |-> None, how |-> ReasonNoPrefs]

\* the periods whose assign_period pass has returned, before fill_minimums runs
Passed == IF pc = "run_allocation" THEN 1..(cur - 1) ELSE {}

\* C11: assign_period never assigns a participant whose preference list for
\* the period is empty: they join no demand list and the random fill skips
\* them, so after the pass the slot is empty and its method is a reason.
C11_EmptyPreferencesNeverAssigned ==
  /\ \A p \in Passed : \A c \in Campers :
       preferences[c][p] = <<>> =>
         assignments[c][p].hug = None /\ assignments[c][p].how \in Reasons
  /\ \A p \in Passed : p = cur - 1 =>
       \A e \in rank_log : \A c \in e.demanders : preferences[c][p] # <<>>

\* a pass returned leaving a participant without preferences unassigned
\* although an activity of the period they do not hold elsewhere has a free seat
C11_Witness ==
  \E p \in Passed : \E c \in Campers : \E h \in Hugs :
    /\ preferences[c][p] = <<>>
    /\ assignments[c][p].hug = None
    /\ hugim[p][h].present /\ HasRoom(hugim[p], h)
    /\ ~already_has_hug(assignments[c], p, h)

\* C12: every participant that assign_period leaves unassigned gets one of
\* the five specific reasons, never "Unknown reason (please report)."
C12_FallbackUnreachable ==
  \A p \in Passed : \A c \in Campers :
    assignments[c][p].hug = None =>
      assignments[c][p].how \in Reasons \ {ReasonUnknown}

\* a pass left unassigned a participant with preferences and one without
C12_Witness ==
  \E p \in Passed : \E c, d \in Campers :
    /\ assignments[c][p].hug = None /\ preferences[c][p] # <<>>
    /\ assignments[d][p].hug = None /\ preferences[d][p] = <<>>
    /\ assignments[d][p].how = ReasonNoPrefs

\* C13: the Scorer appends, for each participant, the sum over the periods of
\* the points of the method: Pref_1..Pref_5 give 5, 4, 3, 2, 1 and every
\* other method gives 0; the appended score lies in 0 .. 5 * periods.
C13_ScorerValue ==
  LET pts(how) == CASE how = "Pref_1" -> 5 [] how = "Pref_2" -> 4
                    [] how = "Pref_3" -> 3 [] how = "Pref_4" -> 2
                    [] how = "Pref_5" -> 1 [] OTHER -> 0
      total(c) == SumSeq([p \in 1..NumPeriods |-> pts(assignments[c][p].how)])
  IN  pc = "done" =>
        \A c \in Campers :
          /\ Len(score_history[c]) = Len(base_scores[c]) + 1
          /\ score_history[c][Len(score_history[c])] = total(c)
          /\ total(c) \in 0..(5 * NumPeriods)

\* the Scorer has appended a positive score for a table that holds a ranked
\* method next to a method without points
C13_Witness ==
  /\ pc = "done"
  /\ \E c \in Campers : \E p, q \in Periods :
       /\ assignments[c][p].how = "Pref_2"
       /\ assignments[c][q].how \in {"Pref_6", "Manual_Override", Random}
       /\ score_history[c][Len(score_history[c])] = 4

\* C14: score_history is append-only: assign_period and both minimum
\* enforcers leave every score_history as loaded, and the Scorer extends each
\* by exactly one entry at the end, keeping the earlier entries.
C14_ScoreHistoryAppendOnly ==
  /\ pc # "done" => score_history = base_scores
  /\ pc = "done" =>
       \A c \in Campers :
         /\ Len(score_history[c]) = Len(base_scores[c]) + 1
         /\ SubSeq(score_history[c], 1, Len(base_scores[c])) = base_scores[c]

\* a cycle ended for a participant who brought a prior score
C14_Witness ==
  /\ pc = "done"
  /\ \E c \in Campers :
       /\ base_scores[c] # <<>>
       /\ Len(score_history[c]) = 2
       /\ score_history[c][2] > 0

\* C15: under the cancel strategy every participant who was enrolled in a
\* removed instance ends the run reassigned in that period, by a ranked
\* preference or by random fill, whenever a surviving activity of the period
\* has a free seat and is not held by them in another period.
C15_CancelScenario ==
  EnforceReturned =>
    \A x \in displaced :
      (\E h \in Hugs :
         /\ hugim[x[2]][h].present
         /\ HasRoom(hugim[x[2]], h)
         /\ ~already_has_hug(assignments[x[1]], x[2], h))
      => /\ assignments[x[1]][x[2]].hug # None
         /\ assignments[x[1]][x[2]].how \in PrefMethods \cup {Random}

\* free seats of an activity over its period instances
FreeSeats(hg, h) ==
  SumSeq([p \in 1..NumPeriods |->
            IF hg[p][h].present /\ HasRoom(hg[p], h)
            THEN hg[p][h].capacity - Cardinality(hg[p][h].enrolled) ELSE 0])

\* the shortfall of an activity: hug_minimums[hug] - len(hug_to_campers[hug])
Shortfall(hg, h) ==
  IF \E p \in Periods : hg[p][h].present
  THEN HugMinimum(hg, h) - Cardinality(HugToCampers(hg, h)) ELSE 0

\* the participants holding an activity with method Forced_minimum
ForcedInto(asg, h) ==
  {c \in Campers : \E p \in Periods : asg[c][p] = [hug |-> h, how |-> Forced_minimum]}

\* the call of fill_minimums that follows the preference rounds is about to run
AfterPreferenceRounds == pc = "run_allocation" /\ cur > NumPeriods

\* C16 as claimed: when an activity is short by m after the preference rounds,
\* m participants hold it in no period and its instances have m free seats,
\* fill_minimums adds m participants as Forced_minimum and the minimum is met.
C16_ForceFillScenario ==
  [][AfterPreferenceRounds =>
       \A h \in Hugs :
         LET m == Shortfall(hugim, h)
         IN  /\ m > 0
             /\ Cardinality(Campers \ HugToCampers(hugim, h)) >= m
             /\ FreeSeats(hugim, h) >= m
             => /\ Cardinality(ForcedInto(assignments', h)) = m
                /\ Shortfall(hugim', h) <= 0]_vars

\* C16 as amended: the same for the first activity in catalog order that is
\* short, when m of the participants holding it in no period are unassigned
\* in every period whose instance of it has a free seat.
C16_ForceFillEmptySlots ==
  [][AfterPreferenceRounds =>
       \A h \in Hugs :
         LET m == Shortfall(hugim, h)
             order == FillOrder(hugim, 1, {})
             first == \A i, j \in 1..Len(order) :
                        i < j /\ order[j] = h => Shortfall(hugim, order[i]) <= 0
             free == {c \in Campers \ HugToCampers(hugim, h) :
                        \A p \in Periods :
                          hugim[p][h].present /\ HasRoom(hugim[p], h)
                          => assignments[c][p].hug = None}
         IN  /\ m > 0
             /\ first
             /\ Cardinality(free) >= m
             /\ FreeSeats(hugim, h) >= m
             => /\ Cardinality(ForcedInto(assignments', h)) = m
                /\ Shortfall(hugim', h) <= 0]_vars

\* fill_minimums has met the minimum of an activity by forcing in two
\* participants, one of whom kept an assignment of the preference rounds
C16_Witness ==
  /\ pc = "strategy"
  /\ \E h \in Hugs :
       /\ Cardinality(ForcedInto(assignments, h)) = 2
       /\ Shortfall(hugim, h) = 0
  /\ \E c \in Campers, p \in Periods : assignments[c][p].how \in PrefMethods

\* C17: after every phase, the enrolled set of every remaining instance is
\* exactly the set of participants assigned to it in its period, and nobody
\* is assigned to an activity the period does not (or no longer) hold.
C17_EnrollmentMatchesAssignments ==
  /\ \A x \in Instances :
       Enrolled(x) = {c \in Campers : assignments[c][x[1]].hug = x[2]}
  /\ \A c \in Campers, p \in Periods :
       assignments[c][p].hug # None => hugim[p][assignments[c][p].hug].present

\* the cancel strategy returned after deleting an instance that had an
\* enrollee and enrolling a displaced participant elsewhere
C17_Witness ==
  /\ EnforceReturned
  /\ \E x \in displaced : assignments[x[1]][x[2]].hug # None
  /\ \E x \in Instances : Enrolled(x) # {}

\* C18: assign_period for period P leaves unchanged the assignment of every
\* participant already assigned in P, every assignment of the other periods
\* and the enrolled sets of the instances of the other periods.
C18_RoundAllocatorFrame ==
  [][pc = "run_allocation" /\ cur <= NumPeriods =>
       /\ \A c \in Campers :
            assignments[c][cur].hug # None => assignments'[c][cur] = assignments[c][cur]
       /\ \A c \in Campers, p \in Periods \ {cur} :
            assignments'[c][p] = assignments[c][p]
       /\ \A p \in Periods \ {cur} : hugim'[p] = hugim[p]]_vars

\* the pass of the first period returned having admitted one participant next
\* to one who was already assigned in that period, with assignments and
\* enrollments present in the other period
C18_Witness ==
  /\ cur = 2
  /\ \E c, d \in Campers :
       /\ assignments[c][1].how = "Manual_Override"
       /\ assignments[d][1].how \in PrefMethods
       /\ assignments[d][2].how = "Manual_Override"
  /\ \E h \in Hugs : hugim[2][h].enrolled # {}

\* C19: no step raises: assign_period, run_allocation and both minimum
\* enforcers complete on every validated input, an empty participant list
\* included.
C19_NoStepRaises == pc # "raised"

\* C20: get_unassignment_reason gives the reason of the first rule that
\* matches, in the order: no activity offered; every offered activity full;
\* every activity with a free seat held in another period; no preferences
\* listed; no listed preference assignable; unknown.
C20_DiagnosisOrder ==
  pc = "run_allocation" /\ cur > 1 =>
    LET p == cur - 1
        offered == {h \in Hugs : hugim[p][h].present}
        free == {h \in offered : Cardinality(hugim[p][h].enrolled) < hugim[p][h].capacity}
    IN  \A c \in Campers :
          LET open == {h \in free : \A q \in Periods \ {p} : assignments[c][q].hug # h}
              listed == {preferences[c][p][i] : i \in 1..Len(preferences[c][p])}
              how == assignments[c][p].how
          IN  assignments[c][p].hug = None =>
                /\ offered = {} => how = ReasonNoActivities
                /\ offered # {} /\ free = {} => how = ReasonAllFull
                /\ free # {} /\ open = {} => how = ReasonNoRepeat
                /\ open # {} /\ listed = {} => how = ReasonNoPrefs
                /\ open # {} /\ listed # {} /\ listed \cap open = {}
                     => how = ReasonPrefsUnavailable
                /\ listed \cap open # {} => how = ReasonUnknown

\* one diagnosis gave a participant without preferences the repetition
\* reason and another participant the reason of unavailable preferences
C20_Witness ==
  /\ pc = "run_allocation" /\ cur > 1
  /\ \E c, d \in Campers :
       /\ preferences[c][cur - 1] = <<>>
       /\ assignments[c][cur - 1] = [hug |-> None, how |-> ReasonNoRepeat]
       /\ assignments[d][cur - 1] = [hug |-> None, how |-> ReasonPrefsUnavailable]

\* ---- C21: get_all_camps_analytics returns exactly one row per camp name, in
\* the order of the names, whatever the reads do: a read that returns nothing
\* gives 'Error (Read Failed)' with all counts 0, a read that raises gives an
\* 'Error: ...' status, every other camp's row carries the counts of its own
\* data with Status 'OK', and 0 unassigned slots without an assignments table
Failed(rd) == rd.kind = "none" \/ (rd.kind = "dict" /\ ~Truthy(rd))
Raised(rd) == rd.kind = "raises" \/ rd.periods = Bad
CountOr0(v) == IF v = Missing THEN 0 ELSE v.len
C21_OneRowPerCamp ==
  analytics_pc = "returned" =>
    /\ Len(analytics_data) = Len(camp_names)
    /\ \A i \in 1..Len(camp_names) :
         LET row == analytics_data[i]
             rd == reads[camp_names[i]]
         IN /\ row.Camp_Name = camp_names[i]
            /\ Failed(rd) =>
                 /\ row.Status = StatusReadFailed
                 /\ row.Campers = 0 /\ row.Activities = 0
                 /\ row.Periods = 0 /\ row.Unassigned_Slots = 0
            /\ Raised(rd) => row.Status \in {StatusReadRaised, StatusLenRaised}
            /\ ~Failed(rd) /\ ~Raised(rd) =>
                 /\ row.Status = StatusOK
                 /\ row.Campers = CountOr0(rd.prefs_df)
                 /\ row.Activities = CountOr0(rd.hugim_df)
                 /\ row.Periods = CountOr0(rd.periods)
                 /\ row.Unassigned_Slots =
                      (CASE rd.assignments_df = NoTable -> 0
                         [] rd.assignments_df = Table(TableA) -> 3
                         [] rd.assignments_df = Table(TableB) -> 2)

\* two camps: the read of the first raises, the second has data and no
\* assignments table and is reported 'OK' with its own counts
C21_Witness ==
  /\ analytics_pc = "returned"
  /\ Len(camp_names) = 2
  /\ reads[camp_names[1]].kind = "raises"
  /\ reads[camp_names[2]].prefs_df = Sized(2)
  /\ reads[camp_names[2]].periods = Sized(1)
  /\ reads[camp_names[2]].assignments_df = NoTable
  /\ analytics_data[1].Status = StatusReadRaised
  /\ analytics_data[2].Status = StatusOK
  /\ analytics_data[2].Campers = 2
  /\ analytics_data[2].Unassigned_Slots = 0

\* ---- C22: at the end of a run, a slot whose method is Pref_r holds the r-th
\* entry of the participant's preference list for that period, whether the
\* Round Allocator or the cancel-and-reallocate step assigned it
RunEnded == pc \in {"score", "done"}
C22_MethodLabelCorrect ==
  RunEnded =>
    \A c \in Campers, p \in Periods, r \in 1..PREFERENCES_PER_PERIOD :
      assignments[c][p].how = Pref(r) =>
        /\ r <= Len(preferences[c][p])
        /\ preferences[c][p][r] = assignments[c][p].hug

\* a run ended in which the Round Allocator gave a second preference and the
\* reallocation gave a displaced participant their second preference
C22_Witness ==
  /\ RunEnded
  /\ \E c \in Campers, p \in Periods :
       /\ <<c, p>> \in displaced
       /\ assignments[c][p].how = Pref(2)
  /\ \E c \in Campers, p \in Periods :
       /\ <<c, p>> \notin displaced
       /\ assignments[c][p].how = Pref(2)

\* ---- C23: when assign_period for a period finishes, every preference a
\* participant was passed over at (the ranks before r for Pref_r, every
\* processed rank for Random or unassigned) is not offered in that period, is
\* held by the participant in another period, or has no free seat
Unavailable(c, p, h) ==
  \/ ~hugim[p][h].present
  \/ \E p2 \in Periods : p2 # p /\ assignments[c][p2].hug = h
  \/ ~HasRoom(hugim[p], h)
PassedOver(c, p) ==
  LET how == assignments[c][p].how
      n == IF Len(preferences[c][p]) < NumRanks THEN Len(preferences[c][p])
           ELSE NumRanks
  IN  IF \E r \in 1..NumRanks : how = Pref(r)
      THEN 1..((CHOOSE r \in 1..NumRanks : how = Pref(r)) - 1)
      ELSE 1..n
C23_BestAvailable ==
  \A p \in Passed : p = cur - 1 =>
    \A c \in Campers : \A q \in PassedOver(c, p) :
      Unavailable(c, p, preferences[c][p][q])

\* a pass has just finished in which one participant found the offered first
\* preference without a free seat and got the second, and another one with
\* preferences was filled at random or left unassigned
C23_Witness ==
  /\ pc = "run_allocation" /\ cur > 1
  /\ \E c \in Campers :
       /\ assignments[c][cur - 1].how = Pref(2)
       /\ hugim[cur - 1][preferences[c][cur - 1][1]].present
       /\ \A p2 \in Periods : assignments[c][p2].hug # preferences[c][cur - 1][1]
  /\ \E c \in Campers :
       /\ preferences[c][cur - 1] # <<>>
       /\ assignments[c][cur - 1].how \notin PrefMethods

\* ---- C24: when enforce_minimums_cancel_and_reallocate returns, no
\* participant unassigned in a period has a ranked preference for it that is
\* a surviving instance with a free seat and is not held by them in another
\* period, and nobody is assigned to an instance canceled in this run
StillOpenFor(c, p, h) ==
  /\ h \notin canceled_hugs_by_period[p]
  /\ hugim[p][h].present
  /\ HasRoom(hugim[p], h)
  /\ \A p2 \in Periods : p2 # p => assignments[c][p2].hug # h
C24_ReallocationFixedPoint ==
  EnforceReturned =>
    \A c \in Campers, p \in Periods :
      /\ assignments[c][p].hug = None =>
           \A i \in 1..Len(preferences[c][p]) :
             ~StillOpenFor(c, p, preferences[c][p][i])
      /\ assignments[c][p].hug \notin canceled_hugs_by_period[p]

\* the call returned after canceling an instance: one displaced participant
\* was moved to their second preference, and one stayed unassigned although
\* they have preferences for the period
C24_Witness ==
  /\ EnforceReturned
  /\ \E p \in Periods : canceled_hugs_by_period[p] # {}
  /\ \E x \in displaced : assignments[x[1]][x[2]].how = Pref(2)
  /\ \E x \in displaced :
       /\ assignments[x[1]][x[2]].hug = None
       /\ preferences[x[1]][x[2]] # <<>>

\* ---- C25: the Minimum Enforcer judges under-subscription on the enrollment
\* aggregated over all period instances of an activity: a pass of
\* enforce_minimums_cancel_and_reallocate cancels an instance only if the
\* participants holding the activity in any period are fewer than its minimum
Holders(h) == UNION {hugim[p][h].enrolled : p \in Periods}
C25_CancelOnAggregated ==
  [][\A p \in Periods, h \in Hugs :
       h \in canceled_hugs_by_period'[p] /\ h \notin canceled_hugs_by_period[p]
         => Cardinality(Holders(h)) < hugim[p][h].min]_vars

\* ---- C26: a call of fill_minimums changes only slots that were empty,
\* setting them to an activity that was under its minimum with method
\* Forced_minimum; every non-empty assignment keeps its activity and method,
\* and no participant leaves an enrolled set
FillStep == phases' = Append(phases, "fill_minimums")
C26_ForceFillFrame ==
  [][FillStep =>
       /\ \A c \in Campers, p \in Periods :
            assignments'[c][p] # assignments[c][p] =>
              /\ assignments[c][p].hug = None
              /\ assignments'[c][p].how = Forced_minimum
              /\ assignments'[c][p].hug \in Hugs
              /\ Shortfall(hugim, assignments'[c][p].hug) > 0
       /\ \A p \in Periods, h \in Hugs :
            /\ hugim'[p][h].present = hugim[p][h].present
            /\ hugim[p][h].enrolled \subseteq hugim'[p][h].enrolled]_vars

\* fill_minimums has returned: one participant holds a forced activity in
\* one period and kept the preference the Round Allocator gave them in another
C26_Witness ==
  /\ pc = "strategy"
  /\ \E c \in Campers, p \in Periods, p2 \in Periods :
       /\ assignments[c][p].how = Forced_minimum
       /\ assignments[c][p2].how \in PrefMethods
       /\ c \in hugim[p2][assignments[c][p2].hug].enrolled

\* ---- C27: in enforce_minimums_cancel_and_reallocate instances are canceled
\* in the first pass only: a pass never lowers the enrollment of an instance
\* that survives it, a second pass cancels nothing, and the body of the while
\* loop is executed at most twice
PassStep == passes' = passes + 1
C27_CancelOnlyInFirstPass ==
  [][PassStep =>
       /\ passes < 2
       /\ passes >= 1 => canceled_hugs_by_period' = canceled_hugs_by_period
       /\ \A p \in Periods, h \in Hugs :
            hugim'[p][h].present =>
              hugim[p][h].enrolled \subseteq hugim'[p][h].enrolled]_vars

\* the call returned after two passes: the first canceled an instance and
\* reallocated a displaced participant, the second changed nothing
C27_Witness ==
  /\ EnforceReturned
  /\ passes = 2
  /\ \E p \in Periods : canceled_hugs_by_period[p] # {}
  /\ \E x \in displaced : assignments[x[1]][x[2]].how \in PrefMethods

\* ---- C28: when the fill_minimums call of run_allocation has returned,
\* every slot with method Forced_minimum belongs to a participant whose
\* preference list for that period is empty
C28_ForcedOnlyWithoutPreferences ==
  pc = "strategy" =>
    \A c \in Campers, p \in Periods :
      assignments[c][p].how = Forced_minimum => preferences[c][p] = <<>>

\* run_allocation has force-filled a participant without preferences for
\* the period, while a participant with preferences stayed unassigned in it
C28_Witness ==
  /\ pc = "strategy"
  /\ \E c \in Campers, d \in Campers, p \in Periods :
       /\ assignments[c][p].how = Forced_minimum
       /\ preferences[c][p] = <<>>
       /\ preferences[d][p] # <<>>
       /\ assignments[d][p].hug = None

\* ---- C29: a shortfall warning of fill_minimums is surfaced for an activity
\* only if its aggregated enrollment is still below its minimum after
\* force-filling, it names the activity being processed, and none is
\* surfaced while processing an activity whose minimum was met
C29_WarningsAccurate ==
  FillReturned =>
    /\ \A w \in printed : Shortfall(hugim, w.hug) > 0
    /\ \A w \in st_warnings :
         /\ w.hug = w.during
         /\ Shortfall(hugim, w.during) > 0

\* ---- C30: a participant with preferences for a period whom assign_period
\* leaves unassigned in it gets one of the reasons "no activities offered",
\* "all activities full" and "no activity available without repeating"; the
\* reason "Preferences not available" is never recorded by assign_period
C30_AllocatorReasons ==
  /\ \A c \in Campers, p \in Periods :
       assignments[c][p].how # ReasonPrefsUnavailable
  /\ \A p \in Passed, c \in Campers :
       preferences[c][p] # <<>> /\ assignments[c][p].hug = None =>
         assignments[c][p].how \in {ReasonNoActivities, ReasonAllFull, ReasonNoRepeat}

\* after the pass of the last period a participant with preferences is
\* unassigned in it because every open activity is one they hold in another
\* period, and a participant with preferences is unassigned in some period
\* because every activity is full
C30_Witness ==
  /\ pc = "run_allocation" /\ cur > NumPeriods
  /\ \E c \in Campers :
       /\ preferences[c][NumPeriods] # <<>>
       /\ assignments[c][NumPeriods] = [hug |-> None, how |-> ReasonNoRepeat]
  /\ \E c \in Campers, p \in Periods :
       /\ preferences[c][p] # <<>>
       /\ assignments[c][p] = [hug |-> None, how |-> ReasonAllFull]
====
